---- MODULE Spec2Model ----
(***************************************************************************)
(* Question-segmentation engine of backend/services/document_processor.py: *)
(* the pattern matcher (_find_question_patterns), the segment planner      *)
(* (_determine_question_segments) and the orchestrator                     *)
(* (extract_questions_from_pdf) that runs them over one open document.     *)
(*                                                                         *)
(* A document is a sequence of pages; a page has a height and its text     *)
(* spans in the library's native iteration order.  A span is the top of    *)
(* its bounding box (y_pos) and its text, a sequence of characters.  Page  *)
(* numbers are 0-based as in the code; TLA+ sequences are 1-based, so page *)
(* p is doc[p + 1].                                                        *)
(***************************************************************************)
EXTENDS Integers, Sequences, FiniteSets, TLC

VARIABLES doc, pc, doc_open, all_matches, question_segments, qidx, output_files,
          failed, written, error, result, runs, clock, disk,
          new_doc, sidx, saved, batch, task, assignments, questions,
          request, response, history

\* One call: its document, its position, its locals, the files it has saved
\* in its output directory, the questions that failed, its outcome.
callvars == <<doc, pc, doc_open, all_matches, question_segments, qidx, output_files,
              failed, written, error, result>>

\* Calls running side by side: each call's paths, the wall clock they read,
\* the files under the project's temp directory; and the outcomes of the
\* calls made before the present one on the same processor.
runvars == <<runs, clock, disk, history>>

\* _create_question_pdf at work: the output document it builds, the segment
\* it copies next (0 outside the function), the question files as saved.
composevars == <<new_doc, sidx, saved>>

\* process_assignments_background: the documents of the batch, the task's
\* position, the assignment records, the question records it has stored.
taskvars == <<batch, task, assignments, questions>>

\* upload_past_assignments: the request and the answer it gets.
uploadvars == <<request, response>>

vars == <<callvars, runvars, composevars, taskvars, uploadvars>>

(***************************************************************************)
(* Bounds of the explored documents.                                       *)
(***************************************************************************)
MaxPages == 3
MaxSpans == 2

PageHeights == {8, 12}
YGrid == {1, 7}

\* Span texts of the explored documents: "1.", "2)", "Part A", "Intro".
SpanTexts ==
    { <<"1", ".">>,
      <<"2", ")">>,
      <<"P", "a", "r", "t", " ", "A">>,
      <<"I", "n", "t", "r", "o">> }

\* Span texts for the matcher: "12)", "0.", "007.", "Q1:", "q.2", "Q 3",
\* "Question 4.", "problem 5", "[6]", "Part A", "part 7", "Party", " 1. ",
\* "1. Part A", "Intro", "1", "Q.", "[7".
MatcherTexts ==
    { <<"1", "2", ")">>,
      <<"0", ".">>,
      <<"0", "0", "7", ".">>,
      <<"Q", "1", ":">>,
      <<"q", ".", "2">>,
      <<"Q", " ", "3">>,
      <<"Q", "u", "e", "s", "t", "i", "o", "n", " ", "4", ".">>,
      <<"p", "r", "o", "b", "l", "e", "m", " ", "5">>,
      <<"[", "6", "]">>,
      <<"P", "a", "r", "t", " ", "A">>,
      <<"p", "a", "r", "t", " ", "7">>,
      <<"P", "a", "r", "t", "y">>,
      <<" ", "1", ".", " ">>,
      <<"1", ".", " ", "P", "a", "r", "t", " ", "A">>,
      <<"I", "n", "t", "r", "o">>,
      <<"1">>,
      <<"Q", ".">>,
      <<"[", "7">> }

(***************************************************************************)
(* Characters and the regular expressions of question_patterns.            *)
(***************************************************************************)
Digits == <<"0", "1", "2", "3", "4", "5", "6", "7", "8", "9">>
UpperCase == <<"A", "B", "C", "D", "E", "F", "G", "H", "I", "J", "K", "L", "M",
               "N", "O", "P", "Q", "R", "S", "T", "U", "V", "W", "X", "Y", "Z">>
LowerCase == <<"a", "b", "c", "d", "e", "f", "g", "h", "i", "j", "k", "l", "m",
               "n", "o", "p", "q", "r", "s", "t", "u", "v", "w", "x", "y", "z">>

IsDigit(c) == \E i \in 1..Len(Digits) : Digits[i] = c
DigitValue(c) == (CHOOSE i \in 1..Len(Digits) : Digits[i] = c) - 1
IsSpace(c) == c \in {" ", "\t", "\n"}
IsUpper(c) == \E i \in 1..Len(UpperCase) : UpperCase[i] = c
IsLower(c) == \E i \in 1..Len(LowerCase) : LowerCase[i] = c

\* re.IGNORECASE: letters compare by their lower-case form.
ToLower(c) ==
    IF IsUpper(c)
    THEN LowerCase[CHOOSE i \in 1..Len(UpperCase) : UpperCase[i] = c]
    ELSE c

\* str.strip(): leading and trailing whitespace removed.
RECURSIVE StripLeft(_)
StripLeft(s) ==
    IF s # <<>> /\ IsSpace(Head(s)) THEN StripLeft(Tail(s)) ELSE s

RECURSIVE StripRight(_)
StripRight(s) ==
    IF s # <<>> /\ IsSpace(s[Len(s)])
    THEN StripRight(SubSeq(s, 1, Len(s) - 1))
    ELSE s

Strip(s) == StripRight(StripLeft(s))

\* Number of characters of the greedy \d+ (or \d*) starting at position i.
RECURSIVE DigitRun(_, _)
DigitRun(s, i) ==
    IF i <= Len(s) /\ IsDigit(s[i]) THEN 1 + DigitRun(s, i + 1) ELSE 0

\* Position after the greedy \s* starting at position i.
RECURSIVE SkipSpaces(_, _)
SkipSpaces(s, i) ==
    IF i <= Len(s) /\ IsSpace(s[i]) THEN SkipSpaces(s, i + 1) ELSE i

\* The literal word w (lower case) stands at the start of s, ignoring case.
HasPrefix(s, w) ==
    /\ Len(s) >= Len(w)
    /\ \A i \in 1..Len(w) : ToLower(s[i]) = w[i]

NoGroup == <<"no match">>

\* A (\d+) group starting at position i: the digits, or NoGroup.
DigitGroup(s, i) ==
    IF DigitRun(s, i) >= 1 THEN SubSeq(s, i, i + DigitRun(s, i) - 1) ELSE NoGroup

\* ^(\d+)[\.\)]\s*
MatchNumbered(s) ==
    LET n == DigitRun(s, 1)
    IN IF n >= 1 /\ n + 1 <= Len(s) /\ s[n + 1] \in {".", ")"}
       THEN SubSeq(s, 1, n)
       ELSE NoGroup

\* ^Q\.?\s*(\d+)[\.\):]?\s*
MatchQ(s) ==
    IF ~HasPrefix(s, <<"q">>) THEN NoGroup
    ELSE LET afterDot == IF Len(s) >= 2 /\ s[2] = "." THEN 3 ELSE 2
         IN DigitGroup(s, SkipSpaces(s, afterDot))

\* ^Question\s*(\d+)[\.\):]?\s*
MatchQuestion(s) ==
    IF ~HasPrefix(s, <<"q", "u", "e", "s", "t", "i", "o", "n">>) THEN NoGroup
    ELSE DigitGroup(s, SkipSpaces(s, 9))

\* ^Problem\s*(\d+)[\.\):]?\s*
MatchProblem(s) ==
    IF ~HasPrefix(s, <<"p", "r", "o", "b", "l", "e", "m">>) THEN NoGroup
    ELSE DigitGroup(s, SkipSpaces(s, 8))

\* ^\[(\d+)\]
MatchBracket(s) ==
    LET n == DigitRun(s, 2)
    IN IF Len(s) >= 1 /\ s[1] = "[" /\ n >= 1 /\ n + 2 <= Len(s) /\ s[n + 2] = "]"
       THEN SubSeq(s, 2, n + 1)
       ELSE NoGroup

\* ^Part\s*([A-Z]|\d+)[\.\):]?\s*
MatchPart(s) ==
    IF ~HasPrefix(s, <<"p", "a", "r", "t">>) THEN NoGroup
    ELSE LET i == SkipSpaces(s, 5)
         IN IF i <= Len(s) /\ (IsUpper(s[i]) \/ IsLower(s[i]))
            THEN <<s[i]>>
            ELSE DigitGroup(s, i)

NumPatterns == 6

\* self.question_patterns[k - 1] applied by re.match: group(1), or NoGroup.
PatternGroup(k, s) ==
    CASE k = 1 -> MatchNumbered(s)
      [] k = 2 -> MatchQ(s)
      [] k = 3 -> MatchQuestion(s)
      [] k = 4 -> MatchProblem(s)
      [] k = 5 -> MatchBracket(s)
      [] k = 6 -> MatchPart(s)

\* str.isdigit() of a captured group.
AllDigits(g) == g # <<>> /\ \A i \in 1..Len(g) : IsDigit(g[i])

\* int() of a group of digits.
RECURSIVE ToInt(_)
ToInt(g) ==
    IF g = <<>> THEN 0
    ELSE 10 * ToInt(SubSeq(g, 1, Len(g) - 1)) + DigitValue(g[Len(g)])

\* The pattern loop with its break: the first pattern that matches, 0 if none.
FirstPattern(s) ==
    IF \E k \in 1..NumPatterns : PatternGroup(k, s) # NoGroup
    THEN CHOOSE k \in 1..NumPatterns :
            /\ PatternGroup(k, s) # NoGroup
            /\ \A j \in 1..(k - 1) : PatternGroup(j, s) = NoGroup
    ELSE 0

\* The record appended for a span of page page_num that matches.
MatchRecord(page_num, page_height, span) ==
    LET text == Strip(span.text)
        k == FirstPattern(text)
        question_num == PatternGroup(k, text)
    IN [ page |-> page_num,
         y_pos |-> span.y_pos,
         text |-> text,
         pattern_used |-> k,
         page_height |-> page_height,
         starter |-> text,
         question_number |->
             IF AllDigits(question_num) THEN ToInt(question_num) ELSE 0 ]

\* The variant without the break: a matching span is recorded twice.
RECURSIVE PageMatches_Repeated(_, _, _)
PageMatches_Repeated(page_num, page_height, spans) ==
    IF spans = <<>> THEN <<>>
    ELSE LET rest == PageMatches_Repeated(page_num, page_height, Tail(spans))
         IN IF FirstPattern(Strip(Head(spans).text)) # 0
            THEN << MatchRecord(page_num, page_height, Head(spans)),
                    MatchRecord(page_num, page_height, Head(spans)) >> \o rest
            ELSE rest

\* The matches of one page's spans, in the order the spans are visited.
RECURSIVE PageMatches(_, _, _)
PageMatches(page_num, page_height, spans) ==
    IF spans = <<>> THEN <<>>
    ELSE LET rest == PageMatches(page_num, page_height, Tail(spans))
         IN IF FirstPattern(Strip(Head(spans).text)) # 0
            THEN <<MatchRecord(page_num, page_height, Head(spans))>> \o rest
            ELSE rest

\* The page loop: matches of pages page_num.. of d, in visiting order.
RECURSIVE VisitPages(_, _)
VisitPages(d, page_num) ==
    IF page_num >= Len(d) THEN <<>>
    ELSE PageMatches(page_num, d[page_num + 1].height, d[page_num + 1].spans)
            \o VisitPages(d, page_num + 1)

\* The variant that orders the matches by their parsed number.
KeyLess_ByNumber(a, b) == a.question_number < b.question_number

\* key=lambda x: (x['page'], x['y_pos']), compared as tuples.
KeyLess(a, b) ==
    \/ a.page < b.page
    \/ a.page = b.page /\ a.y_pos < b.y_pos

\* list.sort is stable: m goes after every element whose key is not greater.
RECURSIVE InsertSorted(_, _)
InsertSorted(m, sorted) ==
    IF sorted = <<>> THEN <<m>>
    ELSE IF KeyLess(m, Head(sorted))
         THEN <<m>> \o sorted
         ELSE <<Head(sorted)>> \o InsertSorted(m, Tail(sorted))

\* The variant that returns the matches in visiting order.
SortMatches_Unsorted(ms) == ms

\* all_matches.sort(key=...)
RECURSIVE SortMatches(_)
SortMatches(ms) ==
    IF ms = <<>> THEN <<>>
    ELSE InsertSorted(ms[Len(ms)], SortMatches(SubSeq(ms, 1, Len(ms) - 1)))

FindQuestionPatterns(d) == SortMatches(VisitPages(d, 0))

(***************************************************************************)
(* The segment planner, _determine_question_segments.                      *)
(***************************************************************************)
Max(a, b) == IF a >= b THEN a ELSE b
Min(a, b) == IF a <= b THEN a ELSE b

Segment(page, y_start, y_end) ==
    [page |-> page, y_start |-> y_start, y_end |-> y_end]

\* The variant that forgets the clamp at the top of the page.
HeadStart_Unclamped(current_match) == current_match.y_pos - 5

\* max(0, current_match['y_pos'] - 5): small margin above the marker.
HeadStart(current_match) == Max(0, current_match.y_pos - 5)

\* The variant that runs a question up to the next marker itself.
TailEnd_AtMarker(next_match) == next_match.y_pos

\* next_match['y_pos'] - 2: stop just before the next question.
TailEnd(next_match) == next_match.y_pos - 2

\* The variant whose range starts one page early, at the marker's own page.
MiddleSegments_FromMarkerPage(current_match, middle_page, stop_page) ==
    [k \in 1..(stop_page - middle_page + 1) |->
        Segment(middle_page + k - 2, 0, current_match.page_height)]

\* The variant that forgets the pages between the two markers.
MiddleSegments_None(current_match, middle_page, stop_page) == <<>>

\* for middle_page in range(first_page, stop_page): a full page between the
\* current marker's page and the next marker's page.
RECURSIVE MiddleSegments(_, _, _)
MiddleSegments(current_match, middle_page, stop_page) ==
    IF middle_page >= stop_page THEN <<>>
    ELSE <<Segment(middle_page, 0, current_match.page_height)>>
            \o MiddleSegments(current_match, middle_page + 1, stop_page)

\* The variant whose range stops one page early.
RECURSIVE RemainingSegments_OffByOne(_, _)
RemainingSegments_OffByOne(d, remaining_page) ==
    IF remaining_page >= Len(d) - 1 THEN <<>>
    ELSE <<Segment(remaining_page, 0, d[remaining_page + 1].height)>>
            \o RemainingSegments_OffByOne(d, remaining_page + 1)

\* for remaining_page in range(first_page, len(doc)): the pages after the
\* last marker's page.
RECURSIVE RemainingSegments(_, _)
RemainingSegments(d, remaining_page) ==
    IF remaining_page >= Len(d) THEN <<>>
    ELSE <<Segment(remaining_page, 0, d[remaining_page + 1].height)>>
            \o RemainingSegments(d, remaining_page + 1)

\* The segments of the match at position i (1-based; the code's i is i - 1).
QuestionSegmentsOf(matches, d, i) ==
    LET current_match == matches[i]
    IN IF i + 1 <= Len(matches)
       THEN LET next_match == matches[i + 1]
            IN IF current_match.page = next_match.page
               THEN <<Segment(current_match.page, HeadStart(current_match),
                              TailEnd(next_match))>>
               ELSE <<Segment(current_match.page, HeadStart(current_match),
                              current_match.page_height)>>
                    \o MiddleSegments(current_match, current_match.page + 1, next_match.page)
                    \o (IF next_match.page > current_match.page
                        THEN <<Segment(next_match.page, 0, TailEnd(next_match))>>
                        ELSE <<>>)
       ELSE <<Segment(current_match.page, HeadStart(current_match),
                      current_match.page_height)>>
            \o RemainingSegments(d, current_match.page + 1)

\* The variant that falls back to the code's 0-based i.
QuestionNumber_ZeroBased(current_match, i) ==
    IF current_match.question_number # 0
    THEN current_match.question_number
    ELSE i - 1

\* current_match['question_number'] or (i + 1); i here is the 1-based
\* position, the code's i + 1.
QuestionNumber(current_match, i) ==
    IF current_match.question_number # 0
    THEN current_match.question_number
    ELSE i

QuestionOf(matches, d, i) ==
    LET segs == QuestionSegmentsOf(matches, d, i)
    IN [ question_number |-> QuestionNumber(matches[i], i),
         starter |-> matches[i].starter,
         segments |-> segs,
         total_pages |-> Len(segs),
         pattern_used |-> matches[i].pattern_used ]

DetermineQuestionSegments(matches, d) ==
    [i \in 1..Len(matches) |-> QuestionOf(matches, d, i)]

(***************************************************************************)
(* The documents explored: 1..MaxPages pages, at most MaxSpans spans in    *)
(* all, each page's spans in any native order.                             *)
(***************************************************************************)
Spans == [y_pos : YGrid, text : SpanTexts]

RECURSIVE SumTo(_, _)
SumTo(counts, n) == IF n = 0 THEN 0 ELSE counts[n] + SumTo(counts, n - 1)

\* The document whose page p has height heights[p] and the counts[p] spans of
\* flat that follow those of the earlier pages.
DocumentOf(heights, counts, flat) ==
    [p \in 1..Len(heights) |->
        [ height |-> heights[p],
          spans |-> SubSeq(flat, SumTo(counts, p - 1) + 1, SumTo(counts, p)) ]]

(***************************************************************************)
(* extract_questions_from_pdf, one statement group per action.             *)
(***************************************************************************)
\* The locals of a call before its first statement.
InitLocals ==
    /\ pc = "start"
    /\ doc_open = FALSE
    /\ all_matches = <<>>
    /\ question_segments = <<>>
    /\ qidx = 0
    /\ output_files = <<>>
    /\ failed = {}
    /\ written = {}
    /\ error = "none"
    /\ result = <<>>

\* No _create_question_pdf at work, no file saved.
IdleCompose ==
    /\ new_doc = <<>>
    /\ sidx = 0
    /\ saved = {}

\* No background task.
IdleTask ==
    /\ batch = <<>>
    /\ task = [pc |-> "idle", i |-> 0, temp_dir |-> FALSE]
    /\ assignments = <<>>
    /\ questions = <<>>

\* No upload request.
IdleUpload ==
    /\ request = <<>>
    /\ response = <<>>

\* One call on its own: no other call, an empty temp directory.
InitCall ==
    /\ InitLocals
    /\ runs = <<>>
    /\ clock = 0
    /\ disk = {}
    /\ history = <<>>
    /\ IdleCompose
    /\ IdleTask
    /\ IdleUpload

Init ==
    /\ \E n \in 1..MaxPages :
         \E heights \in [1..n -> PageHeights], counts \in [1..n -> 0..MaxSpans] :
            /\ SumTo(counts, n) <= MaxSpans
            /\ \E flat \in [1..SumTo(counts, n) -> Spans] :
                  doc = DocumentOf(heights, counts, flat)
    /\ InitCall

\* f"{question_num:02d}": the decimal digits, padded with a zero to two places.
RECURSIVE DecimalDigits(_)
DecimalDigits(n) ==
    IF n < 10 THEN <<Digits[n + 1]>>
    ELSE DecimalDigits(n \div 10) \o <<Digits[(n % 10) + 1]>>

\* The variant that does not pad.
Format02d_Unpadded(n) == DecimalDigits(n)

Format02d(n) ==
    IF n < 10 THEN <<"0">> \o DecimalDigits(n) ELSE DecimalDigits(n)

\* pdf_filename = f"question_{question_num:02d}.pdf"
QuestionFileName(question_num) ==
    <<"question_">> \o Format02d(question_num) \o <<".pdf">>

\* crop_rect.height of a segment: the rectangle from y_start to
\* min(y_end, page_rect.height); the library has no page of an empty clip.
CropHeight(d, segment) ==
    Min(segment.y_end, d[segment.page + 1].height) - segment.y_start

CanComposite(d, segments) ==
    \A k \in 1..Len(segments) : CropHeight(d, segments[k]) > 0

\* The file output_path after new_doc.save(output_path): a file written
\* earlier under the same name is replaced.
SaveFile(files, name, q) ==
    {f \in files : f.name # name} \cup {[name |-> name, question |-> q]}

\* _extract_basic_metadata for a document without property entries and without
\* a Course/Subject/Paper line on its first page.
ExtractBasicMetadata(d) ==
    [ page_count |-> Len(d), title |-> "", author |-> "",
      subject |-> "", creator |-> "" ]

\* The {} returned when no question is found.
EmptyMetadata == [key \in {} |-> ""]

\* doc = fitz.open(pdf_path)
OpenDocument ==
    /\ pc = "start"
    /\ pc' = "opened"
    /\ doc_open' = TRUE
    /\ UNCHANGED <<doc, all_matches, question_segments, qidx, output_files,
                   failed, written, error, result>>
    /\ UNCHANGED <<runvars, composevars, taskvars, uploadvars>>

\* fitz.open raises: the except clause logs and re-raises.
OpenFails ==
    /\ pc = "start"
    /\ pc' = "raised"
    /\ error' = "open"
    /\ UNCHANGED <<doc, doc_open, all_matches, question_segments, qidx,
                   output_files, failed, written, result>>
    /\ UNCHANGED <<runvars, composevars, taskvars, uploadvars>>

\* all_matches = self._find_question_patterns(doc)
FindPatterns ==
    /\ pc = "opened"
    /\ all_matches' = FindQuestionPatterns(doc)
    /\ pc' = "matched"
    /\ UNCHANGED <<doc, doc_open, question_segments, qidx, output_files,
                   failed, written, error, result>>
    /\ UNCHANGED <<runvars, composevars, taskvars, uploadvars>>

\* page.get_text raises inside _find_question_patterns: logged and re-raised.
FindPatternsFails ==
    /\ pc = "opened"
    /\ pc' = "raised"
    /\ error' = "match"
    /\ UNCHANGED <<doc, doc_open, all_matches, question_segments, qidx,
                   output_files, failed, written, result>>
    /\ UNCHANGED <<runvars, composevars, taskvars, uploadvars>>

\* The variant that returns without closing the document.
NoQuestionsFound_LeavesOpen ==
    /\ pc = "matched"
    /\ all_matches = <<>>
    /\ result' = [matches |-> <<>>, output_files |-> <<>>, metadata |-> EmptyMetadata]
    /\ pc' = "returned"
    /\ UNCHANGED <<doc, doc_open, all_matches, question_segments, qidx, output_files,
                   failed, written, error>>
    /\ UNCHANGED <<runvars, composevars, taskvars, uploadvars>>

\* if not all_matches: doc.close(); return [], [], {}
NoQuestionsFound ==
    /\ pc = "matched"
    /\ all_matches = <<>>
    /\ doc_open' = FALSE
    /\ result' = [matches |-> <<>>, output_files |-> <<>>, metadata |-> EmptyMetadata]
    /\ pc' = "returned"
    /\ UNCHANGED <<doc, all_matches, question_segments, qidx, output_files,
                   failed, written, error>>
    /\ UNCHANGED <<runvars, composevars, taskvars, uploadvars>>

\* question_segments = self._determine_question_segments(all_matches, doc)
PlanSegments ==
    /\ pc = "matched"
    /\ all_matches # <<>>
    /\ question_segments' = DetermineQuestionSegments(all_matches, doc)
    /\ pc' = "planned"
    /\ UNCHANGED <<doc, doc_open, all_matches, qidx, output_files,
                   failed, written, error, result>>
    /\ UNCHANGED <<runvars, composevars, taskvars, uploadvars>>

\* os.makedirs(project_temp_dir), os.makedirs(unique_dir) succeed.
CreateOutputDir ==
    /\ pc = "planned"
    /\ qidx' = 1
    /\ pc' = "composing"
    /\ UNCHANGED <<doc, doc_open, all_matches, question_segments, output_files,
                   failed, written, error, result>>
    /\ UNCHANGED <<runvars, composevars, taskvars, uploadvars>>

\* The variant that logs the failure and goes on to the question loop.
CreateOutputDirFails_Swallowed ==
    /\ pc = "planned"
    /\ qidx' = 1
    /\ pc' = "composing"
    /\ error' = "makedirs"
    /\ UNCHANGED <<doc, doc_open, all_matches, question_segments, output_files,
                   failed, written, result>>
    /\ UNCHANGED <<runvars, composevars, taskvars, uploadvars>>

\* os.makedirs raises: the except clause logs and re-raises.
CreateOutputDirFails ==
    /\ pc = "planned"
    /\ pc' = "raised"
    /\ error' = "makedirs"
    /\ UNCHANGED <<doc, doc_open, all_matches, question_segments, qidx,
                   output_files, failed, written, result>>
    /\ UNCHANGED <<runvars, composevars, taskvars, uploadvars>>

\* The variant that also counts a written question as failed.
QuestionWritten_AndFailed ==
    /\ pc = "composing"
    /\ qidx <= Len(question_segments)
    /\ CanComposite(doc, question_segments[qidx].segments)
    /\ written' = SaveFile(written,
                           QuestionFileName(question_segments[qidx].question_number),
                           qidx)
    /\ output_files' = Append(output_files,
                              QuestionFileName(question_segments[qidx].question_number))
    /\ failed' = failed \cup {qidx}
    /\ qidx' = qidx + 1
    /\ UNCHANGED <<doc, pc, doc_open, all_matches, question_segments,
                   error, result>>
    /\ UNCHANGED <<runvars, composevars, taskvars, uploadvars>>

\* One iteration of the question loop whose _create_question_pdf returns True:
\* every segment is copied, the file is saved, the path is appended.
QuestionWritten ==
    /\ pc = "composing"
    /\ qidx <= Len(question_segments)
    /\ CanComposite(doc, question_segments[qidx].segments)
    /\ written' = SaveFile(written,
                           QuestionFileName(question_segments[qidx].question_number),
                           qidx)
    /\ output_files' = Append(output_files,
                              QuestionFileName(question_segments[qidx].question_number))
    /\ qidx' = qidx + 1
    /\ UNCHANGED <<doc, pc, doc_open, all_matches, question_segments,
                   failed, error, result>>
    /\ UNCHANGED <<runvars, composevars, taskvars, uploadvars>>

\* The variant in which a failing question ends the question loop.
QuestionFailed_StopsLoop ==
    /\ pc = "composing"
    /\ qidx <= Len(question_segments)
    /\ failed' = failed \cup {qidx}
    /\ qidx' = Len(question_segments) + 1
    /\ UNCHANGED <<doc, pc, doc_open, all_matches, question_segments,
                   output_files, written, error, result>>
    /\ UNCHANGED <<runvars, composevars, taskvars, uploadvars>>

\* The variant in which a failing question ends the call with its exception.
QuestionFailed_Aborts ==
    /\ pc = "composing"
    /\ qidx <= Len(question_segments)
    /\ failed' = failed \cup {qidx}
    /\ pc' = "raised"
    /\ error' = "compose"
    /\ UNCHANGED <<doc, doc_open, all_matches, question_segments, qidx,
                   output_files, written, result>>
    /\ UNCHANGED <<runvars, composevars, taskvars, uploadvars>>

\* One iteration of the question loop whose _create_question_pdf returns False:
\* a segment copy or the save raised, the except clause logged it.
QuestionFailed ==
    /\ pc = "composing"
    /\ qidx <= Len(question_segments)
    /\ failed' = failed \cup {qidx}
    /\ qidx' = qidx + 1
    /\ UNCHANGED <<doc, pc, doc_open, all_matches, question_segments,
                   output_files, written, error, result>>
    /\ UNCHANGED <<runvars, composevars, taskvars, uploadvars>>

\* The variant that returns only the matches whose Question was written.
CloseAndReturn_DropsFailed ==
    /\ pc = "composing"
    /\ qidx > Len(question_segments)
    /\ doc_open' = FALSE
    /\ result' = [ matches |-> SelectSeq(all_matches,
                                   LAMBDA m : \E q \in 1..Len(all_matches) :
                                                 all_matches[q] = m /\ q \notin failed),
                   output_files |-> output_files,
                   metadata |-> ExtractBasicMetadata(doc) ]
    /\ pc' = "returned"
    /\ UNCHANGED <<doc, all_matches, question_segments, qidx, output_files,
                   failed, written, error>>
    /\ UNCHANGED <<runvars, composevars, taskvars, uploadvars>>

\* metadata = self._extract_basic_metadata(doc); doc.close(); return
CloseAndReturn ==
    /\ pc = "composing"
    /\ qidx > Len(question_segments)
    /\ doc_open' = FALSE
    /\ result' = [ matches |-> all_matches, output_files |-> output_files,
                   metadata |-> ExtractBasicMetadata(doc) ]
    /\ pc' = "returned"
    /\ UNCHANGED <<doc, all_matches, question_segments, qidx, output_files,
                   failed, written, error>>
    /\ UNCHANGED <<runvars, composevars, taskvars, uploadvars>>

\* _extract_basic_metadata raises (doc[0].get_text): logged and re-raised.
ExtractMetadataFails ==
    /\ pc = "composing"
    /\ qidx > Len(question_segments)
    /\ pc' = "raised"
    /\ error' = "metadata"
    /\ UNCHANGED <<doc, doc_open, all_matches, question_segments, qidx,
                   output_files, failed, written, result>>
    /\ UNCHANGED <<runvars, composevars, taskvars, uploadvars>>

Next ==
    \/ OpenDocument
    \/ OpenFails
    \/ FindPatterns
    \/ FindPatternsFails
    \/ NoQuestionsFound
    \/ PlanSegments
    \/ CreateOutputDir
    \/ CreateOutputDirFails
    \/ QuestionWritten
    \/ QuestionFailed
    \/ CloseAndReturn
    \/ ExtractMetadataFails

Spec == Init /\ [][Next]_vars

\* The run up to the planned Questions: open, match, plan.
NextPlanner ==
    \/ OpenDocument
    \/ FindPatterns
    \/ NoQuestionsFound
    \/ PlanSegments

SpecPlanner == Init /\ [][NextPlanner]_vars

\* One-page documents whose spans carry the matcher's texts.
InitMatcher ==
    /\ \E height \in PageHeights, n \in 0..MaxSpans :
         \E spans \in [1..n -> [y_pos : YGrid, text : MatcherTexts]] :
            doc = <<[height |-> height, spans |-> spans]>>
    /\ InitCall

SpecMatcher == InitMatcher /\ [][NextPlanner]_vars

\* The 3-page document of height 800 with the markers "1." at (page 0, y 50),
\* "2." at (page 1, y 400) and "3." at (page 2, y 100).
ExampleDocument ==
    << [height |-> 800, spans |-> <<[y_pos |-> 50, text |-> <<"1", ".">>]>>],
       [height |-> 800, spans |-> <<[y_pos |-> 400, text |-> <<"2", ".">>]>>],
       [height |-> 800, spans |-> <<[y_pos |-> 100, text |-> <<"3", ".">>]>>] >>

\* Page p of a document whose page heights alternate, starting with first.
AlternatingHeight(first, p) ==
    IF p % 2 = 1 THEN first ELSE CHOOSE h \in PageHeights : h # first

\* The documents of the whole call: page heights alternating from either
\* height, spans as in Init; and the example document.
InitOrchestrator ==
    /\ \/ \E n \in 1..MaxPages :
            \E first \in PageHeights, counts \in [1..n -> 0..MaxSpans] :
               /\ SumTo(counts, n) <= MaxSpans
               /\ \E flat \in [1..SumTo(counts, n) -> Spans] :
                     doc = DocumentOf([p \in 1..n |-> AlternatingHeight(first, p)],
                                      counts, flat)
       \/ doc = ExampleDocument
    /\ InitCall

SpecOrchestrator == InitOrchestrator /\ [][Next]_vars

(***************************************************************************)
(* Calls one after another on the same processor and the same document.    *)
(***************************************************************************)
MaxCalls == 2

\* The variant whose processor counts its calls and reports the count.
CallAgain_CountsCalls ==
    /\ pc \in {"returned", "raised"}
    /\ Len(history) < MaxCalls - 1
    /\ history' = Append(history,
                         [ pc |-> pc, error |-> error,
                           result |-> IF pc = "returned" /\ all_matches = <<>>
                                      THEN [result EXCEPT !.metadata =
                                               [calls |-> Len(history)]]
                                      ELSE result ])
    /\ pc' = "start"
    /\ doc_open' = FALSE
    /\ all_matches' = <<>>
    /\ question_segments' = <<>>
    /\ qidx' = 0
    /\ output_files' = <<>>
    /\ failed' = {}
    /\ error' = "none"
    /\ result' = <<>>
    /\ UNCHANGED <<doc, written>>
    /\ UNCHANGED <<runs, clock, disk>>
    /\ UNCHANGED <<composevars, taskvars, uploadvars>>

\* The caller keeps the outcome and calls extract_questions_from_pdf again on
\* the same file: the processor holds nothing but its pattern list, every
\* local is created anew, the files written so far stay where they are.
CallAgain ==
    /\ pc \in {"returned", "raised"}
    /\ Len(history) < MaxCalls - 1
    /\ history' = Append(history, [pc |-> pc, error |-> error, result |-> result])
    /\ pc' = "start"
    /\ doc_open' = FALSE
    /\ all_matches' = <<>>
    /\ question_segments' = <<>>
    /\ qidx' = 0
    /\ output_files' = <<>>
    /\ failed' = {}
    /\ error' = "none"
    /\ result' = <<>>
    /\ UNCHANGED <<doc, written>>
    /\ UNCHANGED <<runs, clock, disk>>
    /\ UNCHANGED <<composevars, taskvars, uploadvars>>

\* The calls up to their plan or their return without a question, and the
\* next call after a call that ended.
NextRepeated ==
    \/ OpenDocument
    \/ OpenFails
    \/ FindPatterns
    \/ FindPatternsFails
    \/ NoQuestionsFound
    \/ PlanSegments
    \/ CallAgain

\* The documents called on repeatedly: page heights 8, 12, 8, ..., spans as
\* in Init.
InitRepeated ==
    /\ \E n \in 1..MaxPages :
          \E counts \in [1..n -> 0..MaxSpans] :
             /\ SumTo(counts, n) <= MaxSpans
             /\ \E flat \in [1..SumTo(counts, n) -> Spans] :
                   doc = DocumentOf([p \in 1..n |-> AlternatingHeight(8, p)],
                                    counts, flat)
    /\ InitCall

SpecRepeated == InitRepeated /\ [][NextRepeated]_vars

PageWidth(page_height) == (3 * page_height) \div 4

\* source_page.rect
PageRect(d, page_num) ==
    [ width |-> PageWidth(d[page_num + 1].height),
      height |-> d[page_num + 1].height ]

\* fitz.Rect(0, y_start, page_rect.width, min(y_end, page_rect.height))
CropRect(d, segment) ==
    [ x0 |-> 0,
      y0 |-> segment.y_start,
      x1 |-> PageRect(d, segment.page).width,
      y1 |-> segment.y_start + CropHeight(d, segment) ]

\* new_doc.new_page(width=crop_rect.width, height=segment_height) with the
\* clip of the source page shown on it.
NewPage(d, segment) ==
    [ source_page |-> segment.page,
      width |-> CropRect(d, segment).x1 - CropRect(d, segment).x0,
      height |-> CropRect(d, segment).y1 - CropRect(d, segment).y0,
      clip |-> CropRect(d, segment) ]

\* new_doc.save(output_path): the file of that name now holds these pages.
SavePages(fs, name, q, pages) ==
    {f \in fs : f.name # name} \cup {[name |-> name, question |-> q, pages |-> pages]}

\* _create_question_pdf is entered: new_doc = fitz.open()
BeginQuestion ==
    /\ pc = "composing"
    /\ qidx <= Len(question_segments)
    /\ sidx = 0
    /\ sidx' = 1
    /\ new_doc' = <<>>
    /\ UNCHANGED saved
    /\ UNCHANGED <<callvars, runvars, taskvars, uploadvars>>

\* One iteration of the segment loop: the clip becomes the next page.
CopySegment ==
    /\ sidx >= 1
    /\ sidx <= Len(question_segments[qidx].segments)
    /\ CropHeight(doc, question_segments[qidx].segments[sidx]) > 0
    /\ new_doc' = Append(new_doc, NewPage(doc, question_segments[qidx].segments[sidx]))
    /\ sidx' = sidx + 1
    /\ UNCHANGED saved
    /\ UNCHANGED <<callvars, runvars, taskvars, uploadvars>>

\* The variant that saves the pages copied so far when a copy raises.
CopySegmentFails_SavesPartial ==
    /\ sidx >= 1
    /\ sidx <= Len(question_segments[qidx].segments)
    /\ failed' = failed \cup {qidx}
    /\ saved' = SavePages(saved, QuestionFileName(question_segments[qidx].question_number),
                          qidx, new_doc)
    /\ qidx' = qidx + 1
    /\ sidx' = 0
    /\ new_doc' = <<>>
    /\ UNCHANGED <<doc, pc, doc_open, all_matches, question_segments,
                   output_files, written, error, result>>
    /\ UNCHANGED <<runvars, taskvars, uploadvars>>

\* new_page or show_pdf_page raises: the except clause returns False and the
\* loop of the call logs the failure.
CopySegmentFails ==
    /\ sidx >= 1
    /\ sidx <= Len(question_segments[qidx].segments)
    /\ failed' = failed \cup {qidx}
    /\ qidx' = qidx + 1
    /\ sidx' = 0
    /\ new_doc' = <<>>
    /\ UNCHANGED saved
    /\ UNCHANGED <<doc, pc, doc_open, all_matches, question_segments,
                   output_files, written, error, result>>
    /\ UNCHANGED <<runvars, taskvars, uploadvars>>

\* new_doc.save(output_path) after the last segment; True is returned and the
\* path appended.
SaveQuestion ==
    /\ sidx >= 1
    /\ sidx > Len(question_segments[qidx].segments)
    /\ saved' = SavePages(saved, QuestionFileName(question_segments[qidx].question_number),
                          qidx, new_doc)
    /\ written' = SaveFile(written,
                           QuestionFileName(question_segments[qidx].question_number),
                           qidx)
    /\ output_files' = Append(output_files,
                              QuestionFileName(question_segments[qidx].question_number))
    /\ qidx' = qidx + 1
    /\ sidx' = 0
    /\ new_doc' = <<>>
    /\ UNCHANGED <<doc, pc, doc_open, all_matches, question_segments,
                   failed, error, result>>
    /\ UNCHANGED <<runvars, taskvars, uploadvars>>

\* new_doc.save raises: False is returned, nothing is written.
SaveQuestionFails ==
    /\ sidx >= 1
    /\ sidx > Len(question_segments[qidx].segments)
    /\ failed' = failed \cup {qidx}
    /\ qidx' = qidx + 1
    /\ sidx' = 0
    /\ new_doc' = <<>>
    /\ UNCHANGED saved
    /\ UNCHANGED <<doc, pc, doc_open, all_matches, question_segments,
                   output_files, written, error, result>>
    /\ UNCHANGED <<runvars, taskvars, uploadvars>>

NextCompositor ==
    \/ OpenDocument
    \/ FindPatterns
    \/ NoQuestionsFound
    \/ PlanSegments
    \/ CreateOutputDir
    \/ BeginQuestion
    \/ CopySegment
    \/ CopySegmentFails
    \/ SaveQuestion
    \/ SaveQuestionFails
    \/ CloseAndReturn

SpecCompositor == InitOrchestrator /\ [][NextCompositor]_vars

\* C26: the output document of a composited Question has one page per
\* Segment, in segment order; the k-th page comes from the k-th segment's
\* source page, is as wide as that page and min(y_end, page height) - y_start
\* high; the file is saved only after every segment is copied, so a Question
\* whose copy fails writes no file.
C26_PagePerSegment ==
    /\ \A f \in saved :
          LET segments == question_segments[f.question].segments
          IN /\ Len(f.pages) = Len(segments)
             /\ \A k \in 1..Len(segments) :
                   /\ f.pages[k].source_page = segments[k].page
                   /\ f.pages[k].width = (3 * doc[segments[k].page + 1].height) \div 4
                   /\ f.pages[k].height =
                         (IF segments[k].y_end < doc[segments[k].page + 1].height
                          THEN segments[k].y_end
                          ELSE doc[segments[k].page + 1].height) - segments[k].y_start
    /\ \A q \in failed : ~\E f \in saved : f.question = q
    /\ sidx >= 1 => ~\E f \in saved : f.question = qidx

C26_Witness ==
    /\ pc = "returned"
    /\ Len(question_segments) = 2
    /\ failed = {2}
    /\ \E f \in saved :
          /\ f.question = 1
          /\ Len(f.pages) = 3
          /\ f.pages[2].height < question_segments[1].segments[2].y_end
                                    - question_segments[1].segments[2].y_start

(***************************************************************************)
(* The output directory of a call (lines 57-79), for calls running side by *)
(* side: each reads the wall clock once, creates its directory under the   *)
(* project's temp directory and saves its question files there.            *)
(***************************************************************************)
Runs == {1, 2}
MaxClock == 2
MaxRunQuestions == 2

\* The limit of the directory's name part: pdf_name[:50].
NameLimit == 50

\* A stem of NameLimit + 1 characters that ends in last.
LongStem(last) == [i \in 1..(NameLimit + 1) |-> IF i <= NameLimit THEN "a" ELSE last]

\* Source files dir/stem.pdf: a/hw.pdf, b/hw.pdf, "a/hw 1.pdf", a/hw_1.pdf,
\* a/hw2.pdf and two names that differ in their 51st character only.
PdfPaths ==
    { [dir |-> "a", stem |-> <<"h", "w">>, ext |-> ".pdf"],
      [dir |-> "b", stem |-> <<"h", "w">>, ext |-> ".pdf"],
      [dir |-> "a", stem |-> <<"h", "w", " ", "1">>, ext |-> ".pdf"],
      [dir |-> "a", stem |-> <<"h", "w", "_", "1">>, ext |-> ".pdf"],
      [dir |-> "a", stem |-> <<"h", "w", "2">>, ext |-> ".pdf"],
      [dir |-> "a", stem |-> LongStem("x"), ext |-> ".pdf"],
      [dir |-> "a", stem |-> LongStem("y"), ext |-> ".pdf"] }

\* The caller's per-file temporary directories.
OutputDirs == {"tmp/process_1", "tmp/process_2"}

\* os.path.join(project_root, "temp")
ProjectTempDir == "project_root/temp"

\* os.path.splitext(os.path.basename(pdf_path))[0]
PdfName(pdf_path) == pdf_path.stem

InvalidChars == {"<", ">", ":", "\"", "/", "\\", "|", "?", "*"}

\* re.sub(r'[<>:"/\\|?*]', '_', pdf_name), replace(' ', '_'), pdf_name[:50]
Sanitize(pdf_name) ==
    LET replaced == [i \in 1..Len(pdf_name) |->
                        IF pdf_name[i] \in InvalidChars \/ pdf_name[i] = " "
                        THEN "_" ELSE pdf_name[i]]
    IN IF Len(replaced) > NameLimit THEN SubSeq(replaced, 1, NameLimit) ELSE replaced

\* os.path.join(project_temp_dir, f"questions_{pdf_name}_{timestamp}"); the
\* timestamp is the clock reading, written to the microsecond.
UniqueDir(pdf_path, timestamp) ==
    [ parent |-> ProjectTempDir,
      prefix |-> "questions_",
      pdf_name |-> Sanitize(PdfName(pdf_path)),
      timestamp |-> timestamp ]

NoDir == [parent |-> "", prefix |-> "", pdf_name |-> <<>>, timestamp |-> -1]

InitRuns ==
    /\ doc = ExampleDocument
    /\ InitLocals
    /\ \E paths \in [Runs -> PdfPaths], dirs \in [Runs -> OutputDirs] :
          /\ \A r1 \in Runs, r2 \in Runs : r1 # r2 => dirs[r1] # dirs[r2]
          /\ runs = [r \in Runs |->
                        [ pdf_path |-> paths[r], output_dir |-> dirs[r],
                          pc |-> "start", unique_dir |-> NoDir,
                          output_files |-> <<>> ]]
    /\ clock = 0
    /\ disk = {}
    /\ history = <<>>
    /\ IdleCompose
    /\ IdleTask
    /\ IdleUpload

\* The wall clock moves on.
ClockTick ==
    /\ clock < MaxClock
    /\ clock' = clock + 1
    /\ UNCHANGED <<runs, disk, history>>
    /\ UNCHANGED <<callvars, composevars, taskvars, uploadvars>>

\* timestamp = datetime.now()...; os.makedirs(unique_dir, exist_ok=True)
RunCreateDir(r) ==
    /\ runs[r].pc = "start"
    /\ runs' = [runs EXCEPT ![r].unique_dir = UniqueDir(runs[r].pdf_path, clock),
                            ![r].pc = "composing"]
    /\ UNCHANGED <<clock, disk, history>>
    /\ UNCHANGED <<callvars, composevars, taskvars, uploadvars>>

\* output_path = os.path.join(unique_dir, pdf_filename); the file is saved and
\* the path appended.
RunWriteQuestion(r) ==
    /\ runs[r].pc = "composing"
    /\ Len(runs[r].output_files) < MaxRunQuestions
    /\ LET output_path ==
              [ dir |-> runs[r].unique_dir,
                name |-> QuestionFileName(Len(runs[r].output_files) + 1) ]
       IN /\ disk' = {f \in disk : f.path # output_path}
                        \cup {[path |-> output_path, run |-> r]}
          /\ runs' = [runs EXCEPT ![r].output_files = Append(@, output_path)]
    /\ UNCHANGED <<clock, history>>
    /\ UNCHANGED <<callvars, composevars, taskvars, uploadvars>>

\* return all_matches, output_files, metadata
RunReturn(r) ==
    /\ runs[r].pc = "composing"
    /\ runs' = [runs EXCEPT ![r].pc = "returned"]
    /\ UNCHANGED <<clock, disk, history>>
    /\ UNCHANGED <<callvars, composevars, taskvars, uploadvars>>

NextRuns ==
    \/ ClockTick
    \/ \E r \in Runs : RunCreateDir(r)
    \/ \E r \in Runs : RunWriteQuestion(r)
    \/ \E r \in Runs : RunReturn(r)

SpecRuns == InitRuns /\ [][NextRuns]_vars

\* C17: every path in a call's output_files lies inside a subdirectory that
\* the call created under the output_dir it was given.
C17_UnderOutputDir ==
    \A r \in Runs :
        \A k \in 1..Len(runs[r].output_files) :
            runs[r].output_files[k].dir.parent = runs[r].output_dir

\* C18: two calls running side by side write into different output
\* directories, so neither replaces a question file of the other.
C18_DistinctDirs ==
    \A r1 \in Runs, r2 \in Runs :
        (r1 # r2 /\ runs[r1].pc # "start" /\ runs[r2].pc # "start") =>
            /\ runs[r1].unique_dir # runs[r2].unique_dir
            /\ \A k \in 1..Len(runs[r1].output_files) :
                  [path |-> runs[r1].output_files[k], run |-> r1] \in disk

(***************************************************************************)
(* process_assignments_background (routers/upload.py): the background task *)
(* that runs extract_questions_from_pdf on every file of an upload, stores *)
(* the question files and sets each assignment's status.                   *)
(***************************************************************************)
MaxBatch == 2

\* A one-page document of height 12 with the given marker texts at y = 1, 7.
OnePage(texts) ==
    << [ height |-> 12,
         spans |-> [k \in 1..Len(texts) |->
                       [y_pos |-> IF k = 1 THEN 1 ELSE 7, text |-> texts[k]]] ] >>

\* The uploaded documents: without a marker; "1."; "1." and "2)"; "2)" alone;
\* "1." twice; "Part A" and "1.".
TaskDocuments ==
    { OnePage(<< <<"I", "n", "t", "r", "o">> >>),
      OnePage(<< <<"1", ".">> >>),
      OnePage(<< <<"1", ".">>, <<"2", ")">> >>),
      OnePage(<< <<"2", ")">> >>),
      OnePage(<< <<"1", ".">>, <<"1", ".">> >>),
      OnePage(<< <<"P", "a", "r", "t", " ", "A">>, <<"1", ".">> >>) }

\* NULL in the error_message column.
NoMessage == "NULL"

\* PastAssignmentRepository.update_status(id, status): error_message keeps its
\* default, None, and is written with the status.
UpdateStatus(records, i, status) ==
    [records EXCEPT ![i] = [status |-> status, error_message |-> NoMessage]]

\* What extract_questions_from_pdf returns for document d when the questions
\* of failing (positions in the plan) fail in _create_question_pdf: the
\* matches, the paths, and for each path the number of the Question in it.
ExtractQuestions(d, failing) ==
    LET matches == FindQuestionPatterns(d)
        planned == DetermineQuestionSegments(matches, d)
        done == SelectSeq([q \in 1..Len(planned) |-> q],
                          LAMBDA q : q \notin failing /\ CanComposite(d, planned[q].segments))
    IN [ raised |-> FALSE,
         matches |-> matches,
         output_files |-> [k \in 1..Len(done) |->
                             QuestionFileName(planned[done[k]].question_number)],
         question_numbers |-> [k \in 1..Len(done) |-> planned[done[k]].question_number] ]

\* The call raised instead of returning.
Raised == [raised |-> TRUE, matches |-> <<>>, output_files |-> <<>>,
           question_numbers |-> <<>>]

\* question_files_data and store_partitioned_questions: the first count paths
\* of the file's output_files as question records; record j (from 1) gets
\* question_number j and the object name question_{j:02d}.pdf.
QuestionRecords(i, extracted, count) ==
    [j \in 1..count |->
        [ assignment |-> i,
          question_number |-> j,
          object_name |-> QuestionFileName(j),
          file_path |-> extracted.output_files[j],
          holds |-> extracted.question_numbers[j] ]]

InitTask ==
    /\ doc = ExampleDocument
    /\ InitLocals
    /\ runs = <<>>
    /\ clock = 0
    /\ disk = {}
    /\ history = <<>>
    /\ IdleCompose
    /\ IdleUpload
    /\ \E n \in 1..MaxBatch : batch \in [1..n -> TaskDocuments]
    /\ task = [pc |-> "next", i |-> 1, temp_dir |-> TRUE, results |-> <<>>,
               update_raised |-> FALSE]
    /\ assignments = [i \in 1..Len(batch) |->
                         [status |-> "pending", error_message |-> NoMessage]]
    /\ questions = <<>>

\* for i, pdf_path in enumerate(pdf_paths): update_status(id, "processing")
BeginFile ==
    /\ task.pc = "next"
    /\ task.i <= Len(batch)
    /\ assignments' = UpdateStatus(assignments, task.i, "processing")
    /\ task' = [task EXCEPT !.pc = "processing"]
    /\ UNCHANGED <<batch, questions>>
    /\ UNCHANGED <<callvars, runvars, composevars, uploadvars>>

\* extract_questions_from_pdf returns.
ExtractReturns ==
    /\ task.pc = "processing"
    /\ \E failing \in SUBSET (1..Len(FindQuestionPatterns(batch[task.i]))) :
          task' = [task EXCEPT !.pc = "extracted",
                               !.results = Append(@, ExtractQuestions(batch[task.i], failing))]
    /\ UNCHANGED <<batch, assignments, questions>>
    /\ UNCHANGED <<callvars, runvars, composevars, uploadvars>>

\* The variant in which an exception in one file ends the loop.
ExtractRaises_EndsLoop ==
    /\ task.pc = "processing"
    /\ task' = [task EXCEPT !.pc = "ended", !.temp_dir = FALSE,
                            !.results = Append(@, Raised)]
    /\ UNCHANGED <<batch, assignments, questions>>
    /\ UNCHANGED <<callvars, runvars, composevars, uploadvars>>

\* extract_questions_from_pdf raises: except Exception: update_status(id,
\* "failed"); continue
ExtractRaises ==
    /\ task.pc = "processing"
    /\ assignments' = UpdateStatus(assignments, task.i, "failed")
    /\ task' = [task EXCEPT !.pc = "next", !.i = @ + 1,
                            !.results = Append(@, Raised)]
    /\ UNCHANGED <<batch, questions>>
    /\ UNCHANGED <<callvars, runvars, composevars, uploadvars>>

\* if output_files: every path becomes a question record, the records are
\* stored, update_status(id, "completed")
StoreQuestions ==
    /\ task.pc = "extracted"
    /\ task.results[task.i].output_files # <<>>
    /\ questions' = questions \o
          QuestionRecords(task.i, task.results[task.i],
                          Len(task.results[task.i].output_files))
    /\ assignments' = UpdateStatus(assignments, task.i, "completed")
    /\ task' = [task EXCEPT !.pc = "next", !.i = @ + 1]
    /\ UNCHANGED batch
    /\ UNCHANGED <<callvars, runvars, composevars, uploadvars>>

\* store_partitioned_questions raises after count records (each committed on
\* its own): except Exception: update_status(id, "failed"); continue
StoreQuestionsFails ==
    /\ task.pc = "extracted"
    /\ task.results[task.i].output_files # <<>>
    /\ \E count \in 0..(Len(task.results[task.i].output_files) - 1) :
          questions' = questions \o QuestionRecords(task.i, task.results[task.i], count)
    /\ assignments' = UpdateStatus(assignments, task.i, "failed")
    /\ task' = [task EXCEPT !.pc = "next", !.i = @ + 1,
                            !.results[task.i].raised = TRUE]
    /\ UNCHANGED batch
    /\ UNCHANGED <<callvars, runvars, composevars, uploadvars>>

\* else: update_status(id, "failed"); "No questions extracted" is logged.
NoQuestionsExtracted ==
    /\ task.pc = "extracted"
    /\ task.results[task.i].output_files = <<>>
    /\ assignments' = UpdateStatus(assignments, task.i, "failed")
    /\ task' = [task EXCEPT !.pc = "next", !.i = @ + 1]
    /\ UNCHANGED <<batch, questions>>
    /\ UNCHANGED <<callvars, runvars, composevars, uploadvars>>

\* update_status raises in the body and again in the except clause of the
\* file: the exception leaves the loop, the outer except logs it, the finally
\* clause removes temp_dir.
StatusUpdateRaises ==
    /\ task.pc \in {"processing", "extracted"}
    /\ task' = [task EXCEPT !.pc = "ended", !.temp_dir = FALSE,
                            !.update_raised = TRUE]
    /\ UNCHANGED <<batch, assignments, questions>>
    /\ UNCHANGED <<callvars, runvars, composevars, uploadvars>>

\* The loop is over: finally: shutil.rmtree(temp_dir)
EndTask ==
    /\ task.pc = "next"
    /\ task.i > Len(batch)
    /\ task' = [task EXCEPT !.pc = "ended", !.temp_dir = FALSE]
    /\ UNCHANGED <<batch, assignments, questions>>
    /\ UNCHANGED <<callvars, runvars, composevars, uploadvars>>

NextTask ==
    \/ BeginFile
    \/ ExtractReturns
    \/ ExtractRaises
    \/ StoreQuestions
    \/ StoreQuestionsFails
    \/ NoQuestionsExtracted
    \/ StatusUpdateRaises
    \/ EndTask

SpecTask == InitTask /\ [][NextTask]_vars

\* The task is never suspended for good: each await returns or raises, so
\* the task leaves every position in which one of these steps can be taken
\* (one of them can in every position short of the end).
SpecTaskFair ==
    /\ SpecTask
    /\ WF_task(BeginFile)
    /\ WF_task(ExtractRaises)
    /\ WF_task(StoreQuestions)
    /\ WF_task(NoQuestionsExtracted)
    /\ WF_task(EndTask)

(***************************************************************************)
(* upload_past_assignments (routers/upload.py): validation of the request, *)
(* the upload's temp directory, storing of the files, scheduling of the    *)
(* background task; every exception passes the handler's outer except.     *)
(***************************************************************************)
\* len(files) > 10
FileLimit == 10

Titles == { <<>>, <<" ">>, <<"M", "L">> }
Codes == { <<" ", " ">>, <<"C", "S">> }
Years == { <<>>, <<"2", "4">> }
Semesters == 0..3

\* a.pdf, B.DOCX; c.txt, d.pdf.bak
GoodNames == { <<"a", ".", "p", "d", "f">>, <<"B", ".", "D", "O", "C", "X">> }
BadNames == { <<"c", ".", "t", "x", "t">>,
              <<"d", ".", "p", "d", "f", ".", "b", "a", "k">> }

\* n files named good, but for the file at position bad (if any), named other.
FileList(n, good, bad, other) == [k \in 1..n |-> IF k = bad THEN other ELSE good]

\* str.lower()
Lower(s) == [i \in 1..Len(s) |-> IF IsUpper(s[i]) THEN ToLower(s[i]) ELSE s[i]]

\* str.endswith(suffix)
EndsWith(s, suffix) ==
    /\ Len(s) >= Len(suffix)
    /\ SubSeq(s, Len(s) - Len(suffix) + 1, Len(s)) = suffix

\* file_ext.endswith('.pdf') or file_ext.endswith('.docx')
IsPdfOrDocx(filename) ==
    \/ EndsWith(Lower(filename), <<".", "p", "d", "f">>)
    \/ EndsWith(Lower(filename), <<".", "d", "o", "c", "x">>)

\* The checks of lines 42-67 in their order: the HTTPException the first
\* failing check raises, or NoError.
NoError == [status_code |-> 0, detail |-> "none"]
HTTPException(status_code, detail) == [status_code |-> status_code, detail |-> detail]

ValidateInputs(req) ==
    IF Strip(req.course_title) = <<>> THEN HTTPException(400, "Course title is required")
    ELSE IF Strip(req.course_code) = <<>> THEN HTTPException(400, "Course code is required")
    ELSE IF Strip(req.academic_year) = <<>> THEN HTTPException(400, "Academic year is required")
    ELSE IF req.semester \notin {1, 2} THEN HTTPException(400, "Semester must be 1 or 2")
    ELSE IF req.files = <<>> THEN HTTPException(400, "At least one file is required")
    ELSE IF Len(req.files) > FileLimit THEN HTTPException(400, "Maximum 10 files allowed")
    ELSE IF \E k \in 1..Len(req.files) : ~IsPdfOrDocx(req.files[k])
         THEN HTTPException(400, "File must be PDF or DOCX format")
    ELSE NoError

\* except Exception as e: raise HTTPException(status_code=500, ...): the
\* clause of lines 188-190 also catches the HTTPExceptions raised inside the
\* try, which are Exceptions.
OuterExcept(e) == HTTPException(500, e.detail)

InitUpload ==
    /\ doc = ExampleDocument
    /\ InitLocals
    /\ runs = <<>>
    /\ clock = 0
    /\ disk = {}
    /\ history = <<>>
    /\ IdleCompose
    /\ IdleTask
    /\ \E course_title \in Titles, course_code \in Codes, academic_year \in Years,
          semester \in Semesters, n \in 0..(FileLimit + 1) :
          \E good \in GoodNames, bad \in 0..n, other \in BadNames :
             request = [ course_title |-> course_title, course_code |-> course_code,
                         academic_year |-> academic_year, semester |-> semester,
                         files |-> FileList(n, good, bad, other) ]
    /\ response = [ pc |-> "received", answer |-> NoError, temp_dir |-> FALSE,
                    stored |-> 0, scheduled |-> FALSE ]

\* A check of lines 42-67 raises; the outer except clause answers.
RejectRequest ==
    /\ response.pc = "received"
    /\ ValidateInputs(request) # NoError
    /\ response' = [response EXCEPT !.pc = "answered",
                                    !.answer = OuterExcept(ValidateInputs(request))]
    /\ UNCHANGED request
    /\ UNCHANGED <<callvars, runvars, composevars, taskvars>>

\* All checks pass; os.makedirs(temp_dir)
CreateUploadDir ==
    /\ response.pc = "received"
    /\ ValidateInputs(request) = NoError
    /\ response' = [response EXCEPT !.pc = "saving", !.temp_dir = TRUE]
    /\ UNCHANGED request
    /\ UNCHANGED <<callvars, runvars, composevars, taskvars>>

\* The temp directory cannot be made: HTTPException(500) of line 97, caught
\* and raised again by the outer clause.
CreateUploadDirFails ==
    /\ response.pc = "received"
    /\ ValidateInputs(request) = NoError
    /\ response' = [response EXCEPT
                       !.pc = "answered",
                       !.answer = OuterExcept(HTTPException(500,
                                      "Failed to create temporary directory"))]
    /\ UNCHANGED request
    /\ UNCHANGED <<callvars, runvars, composevars, taskvars>>

\* The files are saved, every assignment is stored, the background task is
\* scheduled and the handler returns.
StoreAndSchedule ==
    /\ response.pc = "saving"
    /\ response' = [response EXCEPT !.pc = "answered",
                                    !.answer = HTTPException(200, "Files uploaded successfully"),
                                    !.stored = Len(request.files),
                                    !.scheduled = TRUE]
    /\ UNCHANGED request
    /\ UNCHANGED <<callvars, runvars, composevars, taskvars>>

\* Converting a DOCX fails before anything is stored: HTTPException(400) of
\* line 131; the temp directory is removed, the outer clause answers.
ConvertDocxFails ==
    /\ response.pc = "saving"
    /\ \E k \in 1..Len(request.files) :
          EndsWith(Lower(request.files[k]), <<".", "d", "o", "c", "x">>)
    /\ response' = [response EXCEPT
                       !.pc = "answered",
                       !.answer = OuterExcept(HTTPException(400,
                                      "Failed to convert DOCX file")),
                       !.temp_dir = FALSE]
    /\ UNCHANGED request
    /\ UNCHANGED <<callvars, runvars, composevars, taskvars>>

\* store_past_assignment raises after count assignments were stored: the
\* temp directory is removed, the outer clause answers.
StoreAssignmentFails ==
    /\ response.pc = "saving"
    /\ \E count \in 0..(Len(request.files) - 1) :
          response' = [response EXCEPT
                          !.pc = "answered",
                          !.answer = OuterExcept(HTTPException(500, "store_past_assignment")),
                          !.stored = count,
                          !.temp_dir = FALSE]
    /\ UNCHANGED request
    /\ UNCHANGED <<callvars, runvars, composevars, taskvars>>

NextUpload ==
    \/ RejectRequest
    \/ CreateUploadDir
    \/ CreateUploadDirFails
    \/ StoreAndSchedule
    \/ ConvertDocxFails
    \/ StoreAssignmentFails

SpecUpload == InitUpload /\ [][NextUpload]_vars

\* The request breaks an input rule: a blank course title, course code or
\* academic year, a semester other than 1 and 2, no file, more than 10
\* files, or a file that is neither .pdf nor .docx.
ViolatesInputRule ==
    \/ \A i \in 1..Len(request.course_title) : request.course_title[i] = " "
    \/ \A i \in 1..Len(request.course_code) : request.course_code[i] = " "
    \/ \A i \in 1..Len(request.academic_year) : request.academic_year[i] = " "
    \/ request.semester \notin {1, 2}
    \/ Len(request.files) = 0
    \/ Len(request.files) > 10
    \/ \E k \in 1..Len(request.files) : request.files[k][Len(request.files[k])] \notin {"f", "F", "x", "X"}

\* C30: a request that breaks an input rule is answered with HTTP status 400,
\* and no file is stored and no background processing is scheduled for it.
C30_Rejected400 ==
    (response.pc = "answered" /\ ViolatesInputRule) =>
        /\ response.answer.status_code = 400
        /\ response.stored = 0
        /\ ~response.scheduled

(***************************************************************************)
(* Properties of the planned segments.                                     *)
(***************************************************************************)
IsPlanned == question_segments # <<>>

\* <<q, k>>: the k-th segment of the q-th planned Question.
SegmentRefs ==
    { r \in (1..Len(question_segments)) \X (1..(MaxPages + 1)) :
        r[2] <= Len(question_segments[r[1]].segments) }

SegmentAt(r) == question_segments[r[1]].segments[r[2]]

PageHeight(p) == doc[p + 1].height

\* Height of the region two segments share (not positive: they share none).
OverlapHeight(a, b) == Min(a.y_end, b.y_end) - Max(a.y_start, b.y_start)

\* C1 as claimed: no two planned segments on the same page, of the same or of
\* different Questions, share a region of positive height.
C1_NoOverlap ==
    \A r1 \in SegmentRefs, r2 \in SegmentRefs :
        (r1 # r2 /\ SegmentAt(r1).page = SegmentAt(r2).page)
            => OverlapHeight(SegmentAt(r1), SegmentAt(r2)) <= 0

\* C1 as amended: two planned segments on the same page share a region at
\* most 3 units high, the 5-unit margin above a marker less the 2-unit gap
\* left before it.
C1_OverlapAtMostMargins ==
    \A r1 \in SegmentRefs, r2 \in SegmentRefs :
        (r1 # r2 /\ SegmentAt(r1).page = SegmentAt(r2).page)
            => OverlapHeight(SegmentAt(r1), SegmentAt(r2)) <= 3

C1_Witness ==
    /\ IsPlanned
    /\ \E r1 \in SegmentRefs, r2 \in SegmentRefs :
          /\ r1[1] # r2[1]
          /\ SegmentAt(r1).page = SegmentAt(r2).page
          /\ OverlapHeight(SegmentAt(r1), SegmentAt(r2)) = 3

\* C2: the segments cover the document from max(0, first_match.y_pos - 5) on
\* the first match's page to the bottom of the last page: every unit of
\* height of every page from that start on lies inside some segment.
C2_CoversToEnd ==
    IsPlanned =>
        \A p \in all_matches[1].page .. (Len(doc) - 1) :
            \A y \in (IF p = all_matches[1].page
                      THEN Max(0, all_matches[1].y_pos - 5) ELSE 0)
                     .. (PageHeight(p) - 1) :
                \E r \in SegmentRefs :
                    /\ SegmentAt(r).page = p
                    /\ SegmentAt(r).y_start <= y
                    /\ y + 1 <= SegmentAt(r).y_end

\* C3: every planned Segment has y_start < y_end and y_end at most the
\* height of the page it is on.
C3_SegmentWellFormed ==
    \A r \in SegmentRefs :
        /\ SegmentAt(r).y_start < SegmentAt(r).y_end
        /\ SegmentAt(r).y_end <= PageHeight(SegmentAt(r).page)

\* C4: the match list returned by the matcher and handed to the planner is
\* sorted ascending by (page, y_pos), whatever order the spans were visited in.
C4_MatchesSorted ==
    \A i \in 1..Len(all_matches), j \in 1..Len(all_matches) :
        i < j => ~KeyLess(all_matches[j], all_matches[i])

C4_Witness ==
    /\ pc = "planned"
    /\ Len(all_matches) >= 2
    /\ all_matches # VisitPages(doc, 0)

\* C5: when match i and match i+1 are on the same page, Question i has
\* exactly one Segment, on that page, from max(0, current.y_pos - 5) to
\* next.y_pos - 2.
C5_SamePageSegment ==
    IsPlanned =>
        \A i \in 1..(Len(all_matches) - 1) :
            all_matches[i].page = all_matches[i + 1].page
                => question_segments[i].segments =
                     << [ page |-> all_matches[i].page,
                          y_start |-> IF all_matches[i].y_pos - 5 > 0
                                      THEN all_matches[i].y_pos - 5 ELSE 0,
                          y_end |-> all_matches[i + 1].y_pos - 2 ] >>

C5_Witness ==
    /\ IsPlanned
    /\ \E i \in 1..(Len(all_matches) - 1) :
          /\ all_matches[i].page = all_matches[i + 1].page
          /\ all_matches[i].y_pos < 5
          /\ all_matches[i + 1].y_pos > 5

\* C6: when match i+1 is on a later page than match i, Question i has
\* next.page - current.page + 1 segments on consecutive pages: the head
\* (current.page, max(0, current.y_pos - 5), current.page_height), one segment
\* per page strictly between, and the tail (next.page, 0, next.y_pos - 2).
C6_CrossPageSegments ==
    IsPlanned =>
        \A i \in 1..(Len(all_matches) - 1) :
            LET cur == all_matches[i]
                nxt == all_matches[i + 1]
                segs == question_segments[i].segments
            IN nxt.page > cur.page =>
                /\ Len(segs) = nxt.page - cur.page + 1
                /\ \A k \in 1..Len(segs) : segs[k].page = cur.page + k - 1
                /\ segs[1] = [ page |-> cur.page,
                               y_start |-> IF cur.y_pos - 5 > 0
                                           THEN cur.y_pos - 5 ELSE 0,
                               y_end |-> cur.page_height ]
                /\ segs[Len(segs)] = [ page |-> nxt.page, y_start |-> 0,
                                       y_end |-> nxt.y_pos - 2 ]

C6_Witness ==
    /\ IsPlanned
    /\ \E i \in 1..(Len(all_matches) - 1) :
          all_matches[i + 1].page >= all_matches[i].page + 2

\* C7: each full-page segment planned for a page strictly between
\* current.page and next.page has y_start = 0 and y_end equal to the height
\* of that middle page itself.
C7_MiddlePageOwnHeight ==
    IsPlanned =>
        \A i \in 1..(Len(all_matches) - 1) :
            \A k \in 1..Len(question_segments[i].segments) :
                LET seg == question_segments[i].segments[k]
                IN (all_matches[i].page < seg.page /\ seg.page < all_matches[i + 1].page)
                     => (seg.y_start = 0 /\ seg.y_end = PageHeight(seg.page))

\* C8: the last match's Question has the segment (current.page,
\* max(0, current.y_pos - 5), current.page_height) followed by one full-page
\* segment (p, 0, height of p) for every later page p of the document, and
\* nothing else; a match on the last page yields exactly one segment.
C8_LastQuestionToEnd ==
    IsPlanned =>
        LET cur == all_matches[Len(all_matches)]
            segs == question_segments[Len(all_matches)].segments
        IN /\ Len(segs) = Len(doc) - cur.page
           /\ segs[1] = [ page |-> cur.page,
                          y_start |-> IF cur.y_pos - 5 > 0 THEN cur.y_pos - 5 ELSE 0,
                          y_end |-> cur.page_height ]
           /\ \A k \in 2..Len(segs) :
                 segs[k] = [ page |-> cur.page + k - 1, y_start |-> 0,
                             y_end |-> PageHeight(cur.page + k - 1) ]

C8_Witness ==
    /\ IsPlanned
    /\ LET cur == all_matches[Len(all_matches)]
       IN /\ cur.page + 2 <= Len(doc) - 1
          /\ PageHeight(cur.page + 1) # cur.page_height
          /\ PageHeight(cur.page + 2) # PageHeight(cur.page + 1)

\* C10: the Questions planned in one run have pairwise distinct
\* question_number values.
C10_DistinctNumbers ==
    \A i \in 1..Len(question_segments), j \in 1..Len(question_segments) :
        i # j => question_segments[i].question_number
                    # question_segments[j].question_number

(***************************************************************************)
(* Numbering.                                                              *)
(***************************************************************************)
\* The marker texts of MatcherTexts as stored in a match (stripped), each with
\* the integer value of its captured group, 0 where the group is no number.
MarkerNumbers ==
    { <<<<"1", "2", ")">>, 12>>,
      <<<<"0", ".">>, 0>>,
      <<<<"0", "0", "7", ".">>, 7>>,
      <<<<"Q", "1", ":">>, 1>>,
      <<<<"q", ".", "2">>, 2>>,
      <<<<"Q", " ", "3">>, 3>>,
      <<<<"Q", "u", "e", "s", "t", "i", "o", "n", " ", "4", ".">>, 4>>,
      <<<<"p", "r", "o", "b", "l", "e", "m", " ", "5">>, 5>>,
      <<<<"[", "6", "]">>, 6>>,
      <<<<"P", "a", "r", "t", " ", "A">>, 0>>,
      <<<<"p", "a", "r", "t", " ", "7">>, 7>>,
      <<<<"P", "a", "r", "t", "y">>, 0>>,
      <<<<"1", ".">>, 1>>,
      <<<<"1", ".", " ", "P", "a", "r", "t", " ", "A">>, 1>> }

\* C9: the matcher records question_number as the integer value of the
\* captured group when it is all digits and 0 otherwise, and the planner gives
\* Question i (0-based) the match's number when non-zero and i + 1 when it is 0.
C9_NumberingFallback ==
    \A i \in 1..Len(all_matches) :
        \E e \in MarkerNumbers :
            /\ e[1] = all_matches[i].text
            /\ all_matches[i].question_number = e[2]
            /\ IsPlanned =>
                  question_segments[i].question_number = (IF e[2] # 0 THEN e[2] ELSE i)

C9_Witness ==
    /\ IsPlanned
    /\ Len(all_matches) = 2
    /\ all_matches[1].text = <<"1", "2", ")">>
    /\ question_segments[1].question_number = 12
    /\ all_matches[2].text = <<"P", "a", "r", "t", " ", "A">>
    /\ question_segments[2].question_number = 2

(***************************************************************************)
(* Properties of the whole call.                                           *)
(***************************************************************************)
\* The questions the loop has gone through whose compositing did not fail,
\* in Question order.
Composited ==
    SelectSeq([i \in 1..(qidx - 1) |-> i], LAMBDA i : i \notin failed)

\* The path the loop builds for the q-th planned Question.
PathOf(q) == QuestionFileName(question_segments[q].question_number)

\* C11: output_files holds one path per successfully composited Question, the
\* paths are pairwise distinct, and every file still holds the Question that
\* was saved under its path: no later Question of the run has replaced it.
C11_DistinctUnclobbered ==
    /\ Len(output_files) = Len(Composited)
    /\ \A i \in 1..Len(output_files), j \in 1..Len(output_files) :
          i # j => output_files[i] # output_files[j]
    /\ \A k \in 1..Len(output_files) :
          [name |-> output_files[k], question |-> Composited[k]] \in written

\* C12: whichever Questions fail, the failure raises nothing, every later
\* Question is still attempted, and output_files is the paths of exactly the
\* Questions that did not fail, in Question order.
C12_FailureIsolation ==
    /\ failed # {} => (pc \in {"composing", "returned"} \/ error = "metadata")
    /\ pc \in {"composing", "returned", "raised"} =>
          output_files = [k \in 1..Len(Composited) |-> PathOf(Composited[k])]
    /\ (pc = "returned" /\ all_matches # <<>>) =>
          /\ qidx = Len(question_segments) + 1
          /\ result.output_files = output_files
          /\ \A q \in 1..Len(question_segments) :
                q \in failed \/ \E k \in 1..Len(output_files) : output_files[k] = PathOf(q)

C12_Witness ==
    /\ pc = "returned"
    /\ Len(question_segments) = 2
    /\ failed = {1}
    /\ Len(result.output_files) = 1

\* C13 as claimed: with zero matches the call raises nothing, closes the
\* document and returns empty matches, empty output_files and the metadata
\* the Metadata Extractor computes for the document.
C13_NoMatchReturnsMetadata ==
    (pc = "returned" /\ all_matches = <<>>) =>
        /\ doc_open = FALSE
        /\ result.matches = <<>>
        /\ result.output_files = <<>>
        /\ result.metadata = [ page_count |-> Len(doc), title |-> "", author |-> "",
                               subject |-> "", creator |-> "" ]

\* C13 as amended: with zero matches the call raises nothing, closes the
\* document and returns empty matches, empty output_files and an empty
\* metadata dictionary; the Metadata Extractor is not run on this path.
C13_NoMatchReturnsEmpty ==
    /\ (pc = "returned" /\ all_matches = <<>>) =>
          /\ doc_open = FALSE
          /\ result.matches = <<>>
          /\ result.output_files = <<>>
          /\ DOMAIN result.metadata = {}
    /\ (pc = "raised" /\ all_matches = <<>>) => error \in {"open", "match"}

C13_Witness ==
    /\ pc = "returned"
    /\ all_matches = <<>>
    /\ \E p \in 1..Len(doc) : doc[p].spans # <<>>

\* C14: once the document was opened, its handle is closed when the call
\* returns or raises, on every path.
C14_ClosedOnEveryPath ==
    pc \in {"returned", "raised"} => doc_open = FALSE

\* C15 as claimed: the call raises only when the document cannot be opened.
C15_RaisesOnlyWhenOpenFails ==
    pc = "raised" => error = "open"

\* C15 as amended: the call raises when the document cannot be opened and
\* when matching, the creation of the output directory or the metadata
\* extraction raises; a failing Question never makes it raise and only
\* shortens output_files by one path.
C15_RaiseCauses ==
    /\ pc = "raised" => error \in {"open", "match", "makedirs", "metadata"}
    /\ failed \subseteq 1..(qidx - 1)
    /\ Len(output_files) = Cardinality(1..(qidx - 1)) - Cardinality(failed)

C15_Witness ==
    /\ pc = "raised"
    /\ error = "metadata"
    /\ failed # {}
    /\ output_files # <<>>

\* C16: a failure to create the output directory is raised by the call, and no
\* Question has been composited or written before it is raised.
C16_DirFailurePropagates ==
    error = "makedirs" =>
        /\ pc = "raised"
        /\ qidx = 0
        /\ output_files = <<>>
        /\ written = {}
        /\ failed = {}

C16_Witness ==
    /\ error = "makedirs"
    /\ pc = "raised"
    /\ Len(question_segments) >= 2

\* C19: for the 3-page document of height 800 with "1." at (0, 50), "2." at
\* (1, 400) and "3." at (2, 100), Question 1 is (0,45,800), (1,0,398),
\* Question 2 is (1,395,800), (2,0,98), Question 3 is (2,95,800), and without
\* a compositing failure the call returns question_01.pdf, question_02.pdf,
\* question_03.pdf in that order.
C19_WorkedExample ==
    doc = ExampleDocument =>
        /\ IsPlanned =>
              /\ Len(question_segments) = 3
              /\ question_segments[1].question_number = 1
              /\ question_segments[1].segments =
                    << [page |-> 0, y_start |-> 45, y_end |-> 800],
                       [page |-> 1, y_start |-> 0, y_end |-> 398] >>
              /\ question_segments[2].question_number = 2
              /\ question_segments[2].segments =
                    << [page |-> 1, y_start |-> 395, y_end |-> 800],
                       [page |-> 2, y_start |-> 0, y_end |-> 98] >>
              /\ question_segments[3].question_number = 3
              /\ question_segments[3].segments =
                    << [page |-> 2, y_start |-> 95, y_end |-> 800] >>
        /\ (pc = "returned" /\ failed = {}) =>
              result.output_files = << <<"question_", "0", "1", ".pdf">>,
                                       <<"question_", "0", "2", ".pdf">>,
                                       <<"question_", "0", "3", ".pdf">> >>

C19_Witness ==
    /\ doc = ExampleDocument
    /\ pc = "returned"
    /\ failed = {}

(***************************************************************************)
(* Positional order of the Questions.                                      *)
(***************************************************************************)
\* The marker texts among SpanTexts: "1.", "2)", "Part A".
MarkerTexts ==
    { <<"1", ".">>, <<"2", ")">>, <<"P", "a", "r", "t", " ", "A">> }

\* <<p, k>>: the k-th span of page p (0-based page) carries a marker.
MarkerSpans ==
    { r \in (0..(Len(doc) - 1)) \X (1..(MaxSpans + 1)) :
        /\ r[2] <= Len(doc[r[1] + 1].spans)
        /\ doc[r[1] + 1].spans[r[2]].text \in MarkerTexts }

\* C20: the planner produces exactly one Question per matching span, none
\* merged or dropped by number, in (page, y_pos) order whatever the parsed
\* numbers are.
C20_OneQuestionPerMarker ==
    IsPlanned =>
        /\ Len(question_segments) = Cardinality(MarkerSpans)
        /\ \A page \in 0..(Len(doc) - 1), y \in YGrid, text \in MarkerTexts :
              Cardinality({i \in 1..Len(question_segments) :
                              /\ all_matches[i].page = page
                              /\ all_matches[i].y_pos = y
                              /\ question_segments[i].starter = text})
                = Cardinality({r \in MarkerSpans :
                              /\ r[1] = page
                              /\ doc[r[1] + 1].spans[r[2]].y_pos = y
                              /\ doc[r[1] + 1].spans[r[2]].text = text})
        /\ \A i \in 1..Len(question_segments) :
              /\ question_segments[i].starter = all_matches[i].text
              /\ question_segments[i].segments[1].page = all_matches[i].page
        /\ \A i \in 1..(Len(question_segments) - 1) :
              \/ all_matches[i].page < all_matches[i + 1].page
              \/ /\ all_matches[i].page = all_matches[i + 1].page
                 /\ all_matches[i].y_pos <= all_matches[i + 1].y_pos

C20_Witness ==
    /\ IsPlanned
    /\ Len(question_segments) = 2
    /\ all_matches[1].question_number = 2
    /\ all_matches[2].question_number = 1
    /\ all_matches[1].y_pos < all_matches[2].y_pos

(***************************************************************************)
(* One match per span, first pattern first.                                *)
(***************************************************************************)
\* The stripped matcher texts that re.match accepts, each with the position
\* (from 1) of the first pattern of question_patterns that accepts it; no
\* text of the table is accepted by a second pattern.
MarkerPatterns ==
    { <<<<"1", "2", ")">>, 1>>,
      <<<<"0", ".">>, 1>>,
      <<<<"0", "0", "7", ".">>, 1>>,
      <<<<"Q", "1", ":">>, 2>>,
      <<<<"q", ".", "2">>, 2>>,
      <<<<"Q", " ", "3">>, 2>>,
      <<<<"Q", "u", "e", "s", "t", "i", "o", "n", " ", "4", ".">>, 3>>,
      <<<<"p", "r", "o", "b", "l", "e", "m", " ", "5">>, 4>>,
      <<<<"[", "6", "]">>, 5>>,
      <<<<"P", "a", "r", "t", " ", "A">>, 6>>,
      <<<<"p", "a", "r", "t", " ", "7">>, 6>>,
      <<<<"P", "a", "r", "t", "y">>, 6>>,
      <<<<"1", ".">>, 1>>,
      <<<<"1", ".", " ", "P", "a", "r", "t", " ", "A">>, 1>> }

HasMatched == pc \notin {"start", "opened"} /\ error = "none"

\* C23: each span yields at most one match; the patterns are tried in their
\* listed order and the first that matches gives pattern_used and
\* question_number, so "1. Part A" is recorded once, with the numeric pattern
\* and question_number 1.
C23_FirstPatternWins ==
    HasMatched =>
        /\ \A y \in YGrid, e \in MarkerPatterns :
              Cardinality({i \in 1..Len(all_matches) :
                              all_matches[i].y_pos = y /\ all_matches[i].text = e[1]})
                = Cardinality({k \in 1..Len(doc[1].spans) :
                              doc[1].spans[k].y_pos = y /\ Strip(doc[1].spans[k].text) = e[1]})
        /\ \A i \in 1..Len(all_matches) :
              /\ \E e \in MarkerPatterns :
                    e[1] = all_matches[i].text /\ e[2] = all_matches[i].pattern_used
              /\ PatternGroup(all_matches[i].pattern_used, all_matches[i].text) # NoGroup
              /\ \A j \in 1..(all_matches[i].pattern_used - 1) :
                    PatternGroup(j, all_matches[i].text) = NoGroup
              /\ all_matches[i].text = <<"1", ".", " ", "P", "a", "r", "t", " ", "A">> =>
                    /\ all_matches[i].pattern_used = 1
                    /\ all_matches[i].question_number = 1

C23_Witness ==
    /\ HasMatched
    /\ Len(doc[1].spans) = 2
    /\ Len(all_matches) = 1
    /\ all_matches[1].text = <<"1", ".", " ", "P", "a", "r", "t", " ", "A">>

(***************************************************************************)
(* Pages of a Question's segments.                                         *)
(***************************************************************************)
\* C25: in every planned Question the first segment is on the page of the
\* Question's own marker, each following segment is on the page right after
\* the page of the segment before it, and total_pages is the number of
\* segments.
C25_ConsecutivePages ==
    IsPlanned =>
        \A q \in 1..Len(question_segments) :
            LET segments == question_segments[q].segments
            IN /\ Len(segments) >= 1
               /\ segments[1].page = all_matches[q].page
               /\ \A k \in 1..(Len(segments) - 1) :
                     segments[k + 1].page = segments[k].page + 1
               /\ question_segments[q].total_pages = Len(segments)

C25_Witness ==
    /\ IsPlanned
    /\ Len(question_segments) = 2
    /\ Len(question_segments[1].segments) = 3
    /\ Len(question_segments[2].segments) = 1
    /\ question_segments[1].total_pages = 3

(***************************************************************************)
(* Sizes of the returned lists.                                            *)
(***************************************************************************)
\* C27: a call that returns hands back the sorted match list it gave to the
\* planner, the planner made one Question per match, and output_files has at
\* most one path per Question gone through, so no more paths than matches.
C27_ReturnedSizes ==
    /\ IsPlanned => Len(question_segments) = Len(all_matches)
    /\ Len(output_files) <= (IF qidx > 0 THEN qidx - 1 ELSE 0)
    /\ qidx <= Len(question_segments) + 1
    /\ pc = "returned" =>
          /\ result.matches = all_matches
          /\ \A i \in 1..(Len(result.matches) - 1) :
                ~KeyLess(result.matches[i + 1], result.matches[i])
          /\ Len(question_segments) = Len(result.matches)
          /\ Len(result.output_files) <= Len(result.matches)

C27_Witness ==
    /\ pc = "returned"
    /\ Len(result.matches) = 2
    /\ Len(result.output_files) = 1
    /\ failed = {2}

(***************************************************************************)
(* Order of the steps of a call.                                           *)
(***************************************************************************)
\* The steps that may follow one another: open, match, plan, the
\* per-question loop, close; a raise ends the call from any step but the loop's
\* iterations, which absorb their failures.
StepOrder ==
    { <<"start", "opened">>, <<"start", "raised">>,
      <<"opened", "matched">>, <<"opened", "raised">>,
      <<"matched", "planned">>, <<"matched", "returned">>,
      <<"planned", "composing">>, <<"planned", "raised">>,
      <<"composing", "returned">>, <<"composing", "raised">> }

\* C24: the steps occur in the order open, match, plan, per-question
\* compose-then-write-or-fail, close: the planner runs once over the whole
\* match list before the first Question is composited, each Question reaches
\* exactly one of WRITTEN or FAILED before the next one starts, and no Question
\* is composited after the source document is closed.
C24_StepsInOrder ==
    [][ /\ pc' # pc => <<pc, pc'>> \in StepOrder
        /\ question_segments' # question_segments =>
              /\ pc = "matched" /\ pc' = "planned"
              /\ question_segments = <<>>
              /\ Len(question_segments') = Len(all_matches)
              /\ qidx = 0 /\ output_files = <<>> /\ failed = {}
        /\ (pc = "composing" /\ qidx' # qidx) =>
              /\ qidx' = qidx + 1
              /\ doc_open /\ doc_open'
              /\ \/ /\ Len(output_files') = Len(output_files) + 1
                    /\ failed' = failed
                    /\ qidx \notin failed
                 \/ /\ output_files' = output_files
                    /\ failed' = failed \cup {qidx}
        /\ (output_files' # output_files \/ failed' # failed \/ written' # written) =>
              (pc = "composing" /\ qidx' = qidx + 1 /\ doc_open)
        /\ (doc_open /\ ~doc_open') =>
              /\ pc' = "returned"
              /\ qidx = 0 \/ qidx = Len(question_segments) + 1
              /\ \A q \in 1..Len(question_segments) :
                    (q \in failed) # (\E f \in written : f.question = q)
                       \/ \E f \in written : f.question > q /\ f.name = PathOf(q)
      ]_vars

C24_Witness ==
    /\ pc = "returned"
    /\ ~doc_open
    /\ Len(question_segments) = 3
    /\ failed = {2}
    /\ Len(output_files) = 2

(***************************************************************************)
(* Properties of the background task.                                      *)
(***************************************************************************)
\* The question records stored for the i-th file of the batch.
StoredFor(i) == SelectSeq(questions, LAMBDA q : q.assignment = i)

\* C21: a document whose extraction yields at least one output file ends
\* with status "completed" and as many stored questions as output files; a
\* document with zero matches or with every Question failing ends with status
\* "failed" and a diagnostic message recorded for it. (Files whose extraction
\* or storing raised are left aside.)
C21_StatusAndDiagnostic ==
    \A i \in 1..Len(batch) :
        (i < task.i /\ ~task.results[i].raised) =>
            IF task.results[i].output_files # <<>>
            THEN /\ assignments[i].status = "completed"
                 /\ Len(StoredFor(i)) = Len(task.results[i].output_files)
            ELSE /\ assignments[i].status = "failed"
                 /\ assignments[i].error_message # NoMessage

C29_PersistedNumber ==
    \A k \in 1..Len(questions) :
        /\ questions[k].question_number = questions[k].holds
        /\ questions[k].object_name = QuestionFileName(questions[k].holds)

====
